---- MODULE Spec2Model ----
(***************************************************************************)
(* Ctrl-F: two CDS-toolbox applications (annual mean temperature and      *)
(* annual mean precipitation).  Each declares a year drop-down, an        *)
(* application function that retrieves twelve monthly fields, averages    *)
(* them over time and returns a live map, and a child function that       *)
(* plots the monthly series at a clicked location.                        *)
(*                                                                         *)
(* The toolbox library (catalogue, cube, geo, chart, livemap and the      *)
(* widgets) is not part of the repository.  Its operators below are       *)
(* stand-ins that follow the interface contracts of the specification;    *)
(* everything the two scripts themselves decide (the value list, the      *)
(* query, the order of the calls, what is bound to the click) is taken    *)
(* from the scripts.                                                       *)
(***************************************************************************)
EXTENDS Integers, Sequences, FiniteSets, TLC

VARIABLES
    script,         \* which of the two scripts is deployed
    pc,             \* position of the application function: "idle" | "retrieving"
    year,           \* current value of the 'year' drop-down
    requests,       \* queries issued to ct.catalogue.retrieve, in order
    output,         \* contents of the livemap output widget
    click_handlers, \* click callbacks active on the displayed map
    figures,        \* child livefigure outputs opened by the last click
    event           \* the last user event handled and how it ended

vars == <<script, pc, year, requests, output, click_handlers, figures, event>>

----------------------------------------------------------------------------
(* Bounds of the model *)

MaxRequests == 2    \* retrievals issued in one behaviour
NLat == 2           \* grid points along latitude
NLon == 2           \* grid points along longitude

----------------------------------------------------------------------------
(* Declarations of the two scripts *)

Scripts == {"Ctrl_F_CDS_toolbox", "Ctrl_F_Precipitation"}

title ==
    [s \in Scripts |->
        IF s = "Ctrl_F_CDS_toolbox" THEN "Ctrl-F" ELSE "Ctrl F - Precipitation"]

app_layout == [output_align |-> "bottom"]

variable ==
    [s \in Scripts |->
        IF s = "Ctrl_F_CDS_toolbox" THEN "2m_temperature" ELSE "total_precipitation"]

child_kwarg ==
    [s \in Scripts |->
        IF s = "Ctrl_F_CDS_toolbox" THEN "monthly_temperature" ELSE "monthly_precipitation"]

\* Variant: the list offers one more year.
dropdown_values_wide == <<2020, 2021, 2022, 2023, 2024>>

dropdown_values == <<2020, 2021, 2022, 2023>>

\* Variant: the request leaves December out.
month_short == <<"01", "02", "03", "04", "05", "06", "07", "08", "09", "10", "11">>

month == <<"01", "02", "03", "04", "05", "06", "07", "08", "09", "10", "11", "12">>

click_on_map == "plot_time_series"

\* A value typed or posted that the drop-down does not list.
OtherYears == {2019, 2024}

YearInputs == {dropdown_values[i] : i \in 1..Len(dropdown_values)} \cup OtherYears

Query(s, y) ==
    [dataset      |-> "reanalysis-era5-single-levels-monthly-means",
     product_type |-> "monthly_averaged_reanalysis",
     variable     |-> <<variable[s]>>,
     year         |-> y,
     month        |-> month,
     time         |-> "00:00"]

----------------------------------------------------------------------------
(* The toolbox library *)

MonthNames == <<"01", "02", "03", "04", "05", "06", "07", "08", "09", "10", "11", "12">>

\* Month number of a two-digit month string; 0 when it is not one.
MonthNumber(str) ==
    IF \E i \in 1..Len(MonthNames) : MonthNames[i] = str
    THEN CHOOSE i \in 1..Len(MonthNames) : MonthNames[i] = str
    ELSE 0

\* Grid points lie at the even coordinates; a click may fall between two.
GridLats == {2 * i : i \in 0..(NLat - 1)}
GridLons == {2 * i : i \in 0..(NLon - 1)}
Grid == GridLats \X GridLons

\* The archive: one scalar per variable, year, month and grid point.
CatalogueValue(var, y, m, lat, lon) ==
    IF var = "2m_temperature"
    THEN 250 + ((7 * y + 3 * m + lat + 2 * lon) % 40)
    ELSE (5 * y + 2 * m + 2 * lat + lon) % 30

\* ct.catalogue.retrieve: one field per requested month, in calendar order.
catalogue_retrieve(q) ==
    LET wanted == {MonthNumber(q.month[i]) : i \in 1..Len(q.month)}
        axis == SelectSeq([i \in 1..Len(MonthNames) |-> i], LAMBDA m : m \in wanted)
    IN [variable |-> q.variable[1],
        time     |-> [i \in 1..Len(axis) |-> [year |-> q.year, month |-> axis[i]]],
        values   |-> [i \in 1..Len(axis) |->
                        [c \in Grid |->
                            CatalogueValue(q.variable[1], q.year, axis[i], c[1], c[2])]]]

RECURSIVE SumOver(_, _, _)
SumOver(values, c, n) ==
    IF n = 0 THEN 0 ELSE values[n][c] + SumOver(values, c, n - 1)

\* ct.cube.average(data, dim='time'): the mean over the time axis, kept as
\* the exact fraction num/den.
cube_average(data) ==
    [variable |-> data.variable,
     values   |-> [c \in Grid |->
                     [num |-> SumOver(data.values, c, Len(data.values)),
                      den |-> Len(data.values)]]]

Abs(x) == IF x < 0 THEN -x ELSE x

Min(S) == CHOOSE x \in S : \A z \in S : x <= z
Max(S) == CHOOSE x \in S : \A z \in S : z <= x

\* Nearest grid coordinate; the lower one when two are equally near.
Nearest(S, x) ==
    Min({g \in S : \A h \in S : Abs(g - x) <= Abs(h - x)})

InExtent(lat, lon) ==
    /\ Min(GridLats) <= lat /\ lat <= Max(GridLats)
    /\ Min(GridLons) <= lon /\ lon <= Max(GridLons)

\* ct.geo.extract_point(data, lon=, lat=): the series at the grid point
\* nearest the location; an error outside the extent of the data.
geo_extract_point(data, lon, lat) ==
    IF InExtent(lat, lon)
    THEN [kind   |-> "series",
          time   |-> data.time,
          values |-> [i \in 1..Len(data.values) |->
                        data.values[i][<<Nearest(GridLats, lat), Nearest(GridLons, lon)>>]]]
    ELSE [kind |-> "error", error |-> "OutOfBoundsError"]

\* ct.chart.line(series): one point per element of the series, in its order.
chart_line(series) ==
    [kind   |-> "figure",
     points |-> [i \in 1..Len(series.values) |->
                    [year  |-> series.time[i].year,
                     month |-> series.time[i].month,
                     value |-> series.values[i]]]]

\* ct.livemap.plot(layer, click_kwargs=)
livemap_plot(layer, click_kwargs) ==
    [kind |-> "livemap", layer |-> layer, click_kwargs |-> click_kwargs]

----------------------------------------------------------------------------
(* The functions of the scripts *)

\* Variant: a failed extraction is caught and an empty chart is returned.
plot_time_series_swallow(location, monthly) ==
    LET lat == location.lat
        lon == location.lon
        data_sel == geo_extract_point(monthly, lon, lat)
    IN IF data_sel.kind = "error"
       THEN [kind |-> "figure", points |-> <<>>]
       ELSE chart_line(data_sel)

\* plot_time_series(location, monthly_<variable>)
plot_time_series(location, monthly) ==
    LET lat == location.lat
        lon == location.lon
        data_sel == geo_extract_point(monthly, lon, lat)
    IN IF data_sel.kind = "error" THEN data_sel ELSE chart_line(data_sel)

\* Variant: the map shows the first monthly field instead of the mean.
application_plot_first(s, monthly_data) ==
    LET first_month ==
            [variable |-> monthly_data.variable,
             values   |-> [c \in Grid |-> [num |-> monthly_data.values[1][c], den |-> 1]]]
        child_kwargs_dict == [name |-> child_kwarg[s], value |-> monthly_data]
    IN livemap_plot(first_month, child_kwargs_dict)

\* The part of application(year) after the retrieval has returned.
application_plot(s, monthly_data) ==
    LET mean_annual == cube_average(monthly_data)
        child_kwargs_dict == [name |-> child_kwarg[s], value |-> monthly_data]
    IN livemap_plot(mean_annual, child_kwargs_dict)

----------------------------------------------------------------------------
(* State machine *)

NoOutput == [kind |-> "none"]
NoEvent == [op |-> "none"]

Locations ==
    [lat : (Min(GridLats) - 1)..(Max(GridLats) + 1),
     lon : (Min(GridLons) - 1)..(Max(GridLons) + 1)]

Init ==
    /\ script \in Scripts
    /\ pc = "idle"
    /\ year = dropdown_values[1]
    /\ requests = <<>>
    /\ output = NoOutput
    /\ click_handlers = <<>>
    /\ figures = <<>>
    /\ event = NoEvent

\* The drop-down refuses a value it does not list; application is not run.
DropdownReject(y) ==
    /\ pc = "idle"
    /\ \A i \in 1..Len(dropdown_values) : dropdown_values[i] # y
    /\ event' = [op |-> "year", year |-> y, result |-> "InvalidSelectionError"]
    /\ UNCHANGED <<script, pc, year, requests, output, click_handlers, figures>>

\* A listed year is selected: application(year) starts and issues its retrieval.
ApplicationCall(y) ==
    /\ pc = "idle"
    /\ \E i \in 1..Len(dropdown_values) : dropdown_values[i] = y
    /\ Len(requests) < MaxRequests
    /\ year' = y
    /\ requests' = Append(requests, Query(script, y))
    /\ pc' = "retrieving"
    /\ figures' = <<>>
    /\ event' = [op |-> "year", year |-> y, result |-> "pending"]
    /\ UNCHANGED <<script, output, click_handlers>>

\* Variant: the dataset of the first retrieval is kept and bound to every map.
ApplicationReturn_stale ==
    /\ pc = "retrieving"
    /\ LET plot == application_plot(script, catalogue_retrieve(requests[Len(requests)]))
           kept == [name |-> child_kwarg[script], value |-> catalogue_retrieve(requests[1])]
       IN /\ output' = plot
          /\ click_handlers' = <<[callback |-> click_on_map, kwargs |-> kept]>>
    /\ pc' = "idle"
    /\ event' = [event EXCEPT !.result = "ok"]
    /\ UNCHANGED <<script, year, requests, figures>>

\* Variant: each returned map adds its callback to those already active.
ApplicationReturn_accumulate ==
    /\ pc = "retrieving"
    /\ LET plot == application_plot(script, catalogue_retrieve(requests[Len(requests)]))
       IN /\ output' = plot
          /\ click_handlers' =
                Append(click_handlers, [callback |-> click_on_map, kwargs |-> plot.click_kwargs])
    /\ pc' = "idle"
    /\ event' = [event EXCEPT !.result = "ok"]
    /\ UNCHANGED <<script, year, requests, figures>>

\* Variant: application builds the map but does not return it.
ApplicationReturn_noreturn ==
    /\ pc = "retrieving"
    /\ output' = NoOutput
    /\ click_handlers' = <<>>
    /\ pc' = "idle"
    /\ event' = [event EXCEPT !.result = "ok"]
    /\ UNCHANGED <<script, year, requests, figures>>

\* The retrieval returns; application averages, plots and returns the map.
ApplicationReturn ==
    /\ pc = "retrieving"
    /\ LET plot == application_plot(script, catalogue_retrieve(requests[Len(requests)]))
       IN /\ output' = plot
          /\ click_handlers' = <<[callback |-> click_on_map, kwargs |-> plot.click_kwargs]>>
    /\ pc' = "idle"
    /\ event' = [event EXCEPT !.result = "ok"]
    /\ UNCHANGED <<script, year, requests, figures>>

\* Variant: application catches the failure and retrieves again.
ApplicationRaise_retry ==
    /\ pc = "retrieving"
    /\ Len(requests) < MaxRequests + 1
    /\ requests' = Append(requests, requests[Len(requests)])
    /\ UNCHANGED <<script, pc, year, output, click_handlers, figures, event>>

\* The retrieval raises; nothing in application catches it.
ApplicationRaise ==
    /\ pc = "retrieving"
    /\ output' = [kind |-> "error", error |-> "RetrievalError"]
    /\ click_handlers' = <<>>
    /\ pc' = "idle"
    /\ event' = [event EXCEPT !.result = "RetrievalError"]
    /\ UNCHANGED <<script, year, requests, figures>>

\* Variant: the child retrieves the year again instead of using its argument.
MapClick_refetch(location) ==
    /\ pc = "idle"
    /\ output.kind = "livemap"
    /\ requests' = Append(requests, requests[Len(requests)])
    /\ figures' = [i \in 1..Len(click_handlers) |->
                      plot_time_series(location, catalogue_retrieve(requests[Len(requests)]))]
    /\ event' = [op |-> "click", location |-> location,
                 result |-> IF \E i \in 1..Len(click_handlers) :
                                   figures'[i].kind = "error"
                            THEN "OutOfBoundsError" ELSE "ok"]
    /\ UNCHANGED <<script, pc, year, output, click_handlers>>

\* A click on the displayed map runs each active callback with its kwargs.
MapClick(location) ==
    /\ pc = "idle"
    /\ output.kind = "livemap"
    /\ figures' = [i \in 1..Len(click_handlers) |->
                      plot_time_series(location, click_handlers[i].kwargs.value)]
    /\ event' = [op |-> "click", location |-> location,
                 result |-> IF \E i \in 1..Len(click_handlers) :
                                   figures'[i].kind = "error"
                            THEN "OutOfBoundsError" ELSE "ok"]
    /\ UNCHANGED <<script, pc, year, requests, output, click_handlers>>

Next ==
    \/ \E y \in YearInputs : DropdownReject(y)
    \/ \E y \in YearInputs : ApplicationCall(y)
    \/ ApplicationReturn
    \/ ApplicationRaise
    \/ \E location \in Locations : MapClick(location)

Spec == Init /\ [][Next]_vars

----------------------------------------------------------------------------
(* Vocabulary of the properties *)

AllowedYears == {2020, 2021, 2022, 2023}

Months == 1..12

LastRequest == requests[Len(requests)]

\* A step that handles a click on the map at a location.
ClickStep(location) ==
    /\ event'.op = "click"
    /\ event'.location = location
    /\ pc = "idle"
    /\ output.kind = "livemap"

SelectStep(y) == DropdownReject(y) \/ ApplicationCall(y)

\* The series the archive holds for a variable and year at the grid point
\* nearest a location, written out month by month.
ArchiveSeries(var, y, location) ==
    [m \in Months |->
        [year |-> y, month |-> m,
         value |-> CatalogueValue(var, y, m,
                                  Nearest(GridLats, location.lat),
                                  Nearest(GridLons, location.lon))]]

\* The twelve monthly fields the archive holds for a variable and year.
IsArchiveDataset(data, var, y) ==
    /\ data.variable = var
    /\ Len(data.time) = 12
    /\ Len(data.values) = 12
    /\ \A m \in Months :
        /\ data.time[m] = [year |-> y, month |-> m]
        /\ \A c \in Grid : data.values[m][c] = CatalogueValue(var, y, m, c[1], c[2])

----------------------------------------------------------------------------
(* C1 -- Freshness.  Once two year selections have completed, a click on   *)
(* the map draws its series from the dataset retrieved by the later        *)
(* selection, and never from the one retrieved by the earlier selection.   *)

C1_Freshness ==
    [][event'.op = "click" =>
        LET location == event'.location IN
        (ClickStep(location) /\ Len(requests) >= 2) =>
            /\ Len(figures') >= 1
            /\ \A i \in 1..Len(figures') :
                /\ InExtent(location.lat, location.lon) =>
                     figures'[i].kind = "figure"
                /\ figures'[i].kind = "figure" =>
                     figures'[i].points =
                        ArchiveSeries(variable[script], LastRequest.year, location)
                /\ figures'[i].kind = "figure" =>
                     \A k \in 1..Len(figures'[i].points) :
                        LastRequest.year # requests[Len(requests) - 1].year =>
                            figures'[i].points[k].year
                                # requests[Len(requests) - 1].year]_vars

C1_Witness ==
    /\ Len(requests) >= 2
    /\ requests[Len(requests) - 1].year # LastRequest.year
    /\ event.op = "click"
    /\ Len(figures) >= 1
    /\ figures[1].kind = "figure"
    /\ figures[1].points[1].year = LastRequest.year

(* C2 -- A click on the map issues no retrieval: the list of requests is   *)
(* the same after the click as before it, and every chart it opens is      *)
(* drawn from the dataset bound to the map that is on display.             *)

C2_ClickDoesNotRetrieve ==
    [][event'.op = "click" =>
        LET location == event'.location IN
        ClickStep(location) =>
            /\ requests' = requests
            /\ output' = output
            /\ \A i \in 1..Len(figures') :
                 figures'[i] = plot_time_series(location, output.click_kwargs.value)]_vars

C2_Witness ==
    /\ event.op = "click"
    /\ Len(requests) >= 1
    /\ Len(figures) >= 1

(* C3 -- Selecting a year outside {2020, 2021, 2022, 2023} ends with       *)
(* InvalidSelectionError and issues no retrieval; no request ever carries  *)
(* such a year.                                                            *)

C4_TwelvePointsInOrder ==
    (event.op = "click" /\ InExtent(event.location.lat, event.location.lon)) =>
        /\ year \in AllowedYears
        /\ Len(figures) >= 1
        /\ \A i \in 1..Len(figures) :
            /\ figures[i].kind = "figure"
            /\ Len(figures[i].points) = 12
            /\ \A k \in 1..12 : figures[i].points[k].month = k

C4_Witness ==
    /\ event.op = "click"
    /\ InExtent(event.location.lat, event.location.lon)
    /\ year \in AllowedYears
    /\ Len(figures) = 1
    /\ figures[1].kind = "figure"
    /\ Len(figures[1].points) = 12

(* C5 -- A click outside the extent of the data, made while a map is on    *)
(* display, ends with OutOfBoundsError and changes neither the map, nor    *)
(* the year, nor the dataset bound to the map, and the map still accepts   *)
(* clicks.                                                                 *)

C5_OutOfBoundsClick ==
    [][event'.op = "click" =>
        LET location == event'.location IN
        (ClickStep(location) /\ ~InExtent(location.lat, location.lon)) =>
            /\ event'.result = "OutOfBoundsError"
            /\ Len(figures') >= 1
            /\ \A i \in 1..Len(figures') :
                 figures'[i] = [kind |-> "error", error |-> "OutOfBoundsError"]
            /\ output' = output
            /\ year' = year
            /\ click_handlers' = click_handlers
            /\ requests' = requests
            /\ pc' = "idle"
            /\ output'.kind = "livemap"]_vars

C5_Witness ==
    /\ event.op = "click"
    /\ ~InExtent(event.location.lat, event.location.lon)
    /\ event.result = "OutOfBoundsError"
    /\ output.kind = "livemap"

(* C6 -- A retrieval that fails ends the selection with RetrievalError    *)
(* after exactly one retrieval attempt (no retry), no map of that request  *)
(* is produced, and every dataset bound to a click callback holds all      *)
(* twelve monthly fields of its year.                                      *)

C7_SingleClickCallback ==
    /\ Len(click_handlers) <= 1
    /\ output.kind = "livemap" =>
        /\ Len(click_handlers) = 1
        /\ click_handlers[1].callback = "plot_time_series"
        /\ click_handlers[1].kwargs = output.click_kwargs
    /\ event.op = "click" => Len(figures) = 1

C7_Witness ==
    /\ Len(requests) >= 2
    /\ event.op = "click"
    /\ Len(click_handlers) = 1
    /\ Len(figures) = 1

(* C10 -- Whenever a map is on display and no selection is in progress,    *)
(* its layer is the mean over the twelve months of the dataset of the      *)
(* selected year, and that same dataset is the one bound to the click      *)
(* callback.                                                               *)

C10_MapIsMeanOfCurrentYear ==
    (pc = "idle" /\ output.kind = "livemap") =>
        /\ year = LastRequest.year
        /\ IsArchiveDataset(output.click_kwargs.value, variable[script], year)
        /\ \A c \in Grid :
            /\ output.layer.values[c].den = 12
            /\ output.layer.values[c].num =
                 SumOver([m \in Months |->
                            [d \in Grid |->
                                CatalogueValue(variable[script], year, m, d[1], d[2])]],
                         c, 12)
        /\ \A i \in 1..Len(click_handlers) :
             click_handlers[i].kwargs.value = output.click_kwargs.value

C10_Witness ==
    /\ pc = "idle"
    /\ output.kind = "livemap"
    /\ Len(requests) >= 2
    /\ requests[Len(requests) - 1].year # year
    /\ output.layer.values[<<0, 0>>].den = 12

----------------------------------------------------------------------------
(* Lifecycle of one application instance *)

Phase ==
    IF pc = "retrieving" THEN "DataLoading"
    ELSE IF output.kind = "none" THEN "Idle"
    ELSE IF output.kind = "error" THEN "RetrievalFailed"
    ELSE IF \E i \in 1..Len(figures) : figures[i].kind = "figure"
         THEN "DrillDownRendered"
    ELSE "MapRendered"

\* The changes of phase of the stated lifecycle.
StatedTransitions ==
    {<<"Idle", "DataLoading">>,
     <<"DataLoading", "MapRendered">>,
     <<"MapRendered", "DrillDownRendered">>,
     <<"DrillDownRendered", "MapRendered">>,
     <<"MapRendered", "DataLoading">>,
     <<"DrillDownRendered", "DataLoading">>}

\* The changes of phase a failed retrieval adds.
FailureTransitions ==
    {<<"DataLoading", "RetrievalFailed">>,
     <<"RetrievalFailed", "DataLoading">>}

NoDrillDownBeforeMap ==
    figures # <<>> => output.kind = "livemap"

\* Some event can be handled, as long as the bound on retrievals is not met.
NotTerminal ==
    /\ ENABLED Next
    /\ (pc = "idle" /\ Len(requests) < MaxRequests) =>
            ENABLED (\E y \in AllowedYears : ApplicationCall(y))

(* C9 (as stated) -- The phase changes only along Idle -> DataLoading ->   *)
(* MapRendered -> DrillDownRendered -> MapRendered, or back to DataLoading *)
(* on a year change; no drill-down precedes a map; no phase is terminal.   *)

C9_StatedLifecycle ==
    [][Phase' # Phase => <<Phase, Phase'>> \in StatedTransitions]_vars

(* C9 (amended) -- The phase changes only along the stated lifecycle or,   *)
(* when a retrieval fails, from DataLoading to a failed state that the     *)
(* next year selection leaves for DataLoading; no drill-down precedes a    *)
(* map; no phase is terminal.                                              *)

C9_Lifecycle ==
    /\ [][Phase' # Phase =>
            <<Phase, Phase'>> \in StatedTransitions \cup FailureTransitions]_vars
    /\ [](NoDrillDownBeforeMap /\ NotTerminal)

C9_Witness ==
    /\ Phase = "DataLoading"
    /\ Len(requests) >= 2
    /\ output.kind = "error"

====
